---- MODULE Spec2Model ----
(***************************************************************************)
(* PDF outline extractor (pdf_outline_extractor.py): the layout pipeline,  *)
(* the OCR fallback pipeline and the orchestrator extract_outline,         *)
(* modelled as a state machine over small PDF documents.                   *)
(*                                                                         *)
(* Text is a sequence of one-character strings.  Font sizes, page widths   *)
(* and bounding boxes are integers; the float comparisons of the source    *)
(* are stated exactly by cross-multiplication (a/b > 7/10 as 10a > 7b).    *)
(***************************************************************************)
EXTENDS Integers, Sequences, FiniteSets, TLC

\* ------------------------------------------------------------------ bounds
\* Most pages a document of the layout or OCR families has.
MaxPages == 2
\* Most spans a document of the layout families has, over all its pages.
MaxSpans == 3
\* Most OCR lines a document of the OCR family has, over all its pages.
MaxLines == 2

\* ------------------------------------------------------- program constants
TitleMinSize == 14
HeadingMinSize == 10
MinTextLen == 3
MaxTextLen == 100
BoldFlag == 16
OcrMinLineLen == 2
OcrTitleMinLen == 3
OcrTitleMaxLen == 100
OcrHeadingMinLen == 3
OcrHeadingMaxLen == 80
OcrH1MaxLen == 30

\* ------------------------------------------------------------- characters
UpperChars ==
    <<"A","B","C","D","E","F","G","H","I","J","K","L","M",
      "N","O","P","Q","R","S","T","U","V","W","X","Y","Z">>
LowerChars ==
    <<"a","b","c","d","e","f","g","h","i","j","k","l","m",
      "n","o","p","q","r","s","t","u","v","w","x","y","z">>
DigitChars == {"0","1","2","3","4","5","6","7","8","9"}

Range(s) == {s[i] : i \in 1..Len(s)}

UpperSet == Range(UpperChars)
LowerSet == Range(LowerChars)
SpaceSet == {" ", "\t", "\n"}

\* str.isupper / islower of one character
IsUpperChar(c) == c \in UpperSet
IsLowerChar(c) == c \in LowerSet
\* what str.strip() removes and what \s matches
IsSpaceChar(c) == c \in SpaceSet

\* str.lower() of an uppercase character
LowerOf ==
    [c \in UpperSet |->
        LowerChars[CHOOSE i \in 1..Len(UpperChars) : UpperChars[i] = c]]

\* str.lower() of one character
LowerChar(c) == IF IsUpperChar(c) THEN LowerOf[c] ELSE c

\* str.lower()
Lower(s) == [i \in 1..Len(s) |-> LowerChar(s[i])]

\* str.lstrip(), str.rstrip(), str.strip(): drop the leading and the
\* trailing whitespace
RECURSIVE lstrip(_)
lstrip(s) ==
    IF s # <<>> /\ IsSpaceChar(s[1]) THEN lstrip(Tail(s)) ELSE s

RECURSIVE rstrip(_)
rstrip(s) ==
    IF s # <<>> /\ IsSpaceChar(s[Len(s)])
    THEN rstrip(SubSeq(s, 1, Len(s) - 1))
    ELSE s

strip(s) == rstrip(lstrip(s))

\* `sub in s` for strings
Contains(s, sub) ==
    \E i \in 1..(Len(s) - Len(sub) + 1) : SubSeq(s, i, i + Len(sub) - 1) = sub

\* n copies of the character c
Rep(c, n) == [i \in 1..n |-> c]

\* --------------------------------------------------------- stable sorting
\* Python's sort is stable: the result is the one stable ascending order of
\* the keys.  SortIdx gives the indices of `keys` in that order.
InsertIdx(sorted, i, keys) ==
    LET later == {p \in 1..Len(sorted) : keys[sorted[p]] > keys[i]}
        pos == IF later = {} THEN Len(sorted) + 1
               ELSE CHOOSE p \in later : \A q \in later : p <= q
    IN  SubSeq(sorted, 1, pos - 1) \o <<i>> \o SubSeq(sorted, pos, Len(sorted))

RECURSIVE SortIdxUpTo(_, _)
SortIdxUpTo(keys, n) ==
    IF n = 0 THEN <<>> ELSE InsertIdx(SortIdxUpTo(keys, n - 1), n, keys)

SortIdx(keys) == SortIdxUpTo(keys, Len(keys))

\* seq sorted stably, ascending by keys[i] (the key of seq[i])
SortedBy(seq, keys) ==
    LET idx == SortIdx(keys) IN [i \in 1..Len(seq) |-> seq[idx[i]]]

\* -------------------------------------------------------- layout pipeline
\* A span of page.get_text("dict"): [text, size, font, flags, bbox], with
\* bbox = <<x0, y0, x1, y1>>.  A page's spans are its blocks' lines' spans
\* in encounter order (a block without "lines" has none).

Untitled ==
    <<"U","n","t","i","t","l","e","d"," ","D","o","c","u","m","e","n","t">>

Abs(x) == IF x < 0 THEN -x ELSE x

\* _is_text_centered, tolerance 0.1:
\* abs((x0 + x1)/2 - page_width/2) < page_width * 0.1
is_text_centered(bbox, page_width) ==
    5 * Abs((bbox[1] + bbox[3]) - page_width) < page_width

\* "bold" in span["font"].lower() or span["flags"] & 2**4
is_bold(span) ==
    \/ Contains(Lower(span.font), <<"b","o","l","d">>)
    \/ (span.flags \div BoldFlag) % 2 = 1

\* the title criteria of _extract_title: text, large font, bold, centred
is_title_candidate(span, page_width) ==
    /\ strip(span.text) # <<>>
    /\ span.size > TitleMinSize
    /\ is_bold(span)
    /\ is_text_centered(span.bbox, page_width)

\* a variant of _extract_title that sorts ascending and takes the last
extract_titleLast(first_page, page_width) ==
    LET Cand(sp) == is_title_candidate(sp, page_width)
        title_candidates == SelectSeq(first_page.spans, Cand)
        sorted == SortedBy(title_candidates,
                           [i \in 1..Len(title_candidates) |->
                               title_candidates[i].size])
    IN  IF title_candidates # <<>>
        THEN strip(sorted[Len(sorted)].text)
        ELSE Untitled

\* _extract_title(first_page), reading self.page_width
extract_title(first_page, page_width) ==
    LET Cand(sp) == is_title_candidate(sp, page_width)
        title_candidates == SelectSeq(first_page.spans, Cand)
        sorted == SortedBy(title_candidates,
                           [i \in 1..Len(title_candidates) |->
                               0 - title_candidates[i].size])
    IN  IF title_candidates # <<>>
        THEN strip(sorted[1].text)
        ELSE Untitled

\* a variant of the filter with every bound exclusive
is_heading_candidateExclusive(span, page_width) ==
    LET text == strip(span.text)
    IN  /\ ~(text = <<>> \/ Len(text) <= MinTextLen)
        /\ ~(Len(text) >= MaxTextLen)
        /\ span.size > HeadingMinSize
        /\ (is_bold(span) \/ is_text_centered(span.bbox, page_width))

\* the filter of _extract_headings_from_page for one span
is_heading_candidate(span, page_width) ==
    LET text == strip(span.text)
    IN  /\ ~(text = <<>> \/ Len(text) < MinTextLen)
        /\ ~(Len(text) > MaxTextLen)
        /\ span.size >= HeadingMinSize
        /\ (is_bold(span) \/ is_text_centered(span.bbox, page_width))

HeadingInfo(span, page_num, page_width) ==
    [level |-> "", text |-> strip(span.text), page |-> page_num,
     font_size |-> span.size, is_bold |-> is_bold(span),
     is_centered |-> is_text_centered(span.bbox, page_width)]

\* _extract_headings_from_page(page, page_num), reading self.page_width
extract_headings_from_page(page, page_num, page_width) ==
    LET Keep(sp) == is_heading_candidate(sp, page_width)
        kept == SelectSeq(page.spans, Keep)
    IN  [i \in 1..Len(kept) |-> HeadingInfo(kept[i], page_num, page_width)]

LevelRank(level) == CASE level = "H1" -> 1 [] level = "H2" -> 2 [] level = "H3" -> 3

\* a variant of the levels with the thresholds inclusive
classify_levelInclusive(h, min_size, max_size) ==
    LET size_range == max_size - min_size
    IN  IF size_range = 0
        THEN IF h.is_bold /\ h.is_centered THEN "H1"
             ELSE IF h.is_bold THEN "H2" ELSE "H3"
        ELSE IF 10 * (h.font_size - min_size) >= 7 * size_range THEN "H1"
             ELSE IF 10 * (h.font_size - min_size) >= 4 * size_range THEN "H2"
             ELSE "H3"

\* a variant of the levels that goes by formatting whatever the sizes
classify_levelByFormat(h, min_size, max_size) ==
    IF h.is_bold /\ h.is_centered THEN "H1"
    ELSE IF h.is_bold THEN "H2" ELSE "H3"

\* the level _classify_headings gives h, min_size and max_size being those of
\* all the candidates
classify_level(h, min_size, max_size) ==
    LET size_range == max_size - min_size
    IN  IF size_range = 0
        THEN IF h.is_bold /\ h.is_centered THEN "H1"
             ELSE IF h.is_bold THEN "H2" ELSE "H3"
        ELSE \* normalized_size = (font_size - min_size) / size_range
             IF 10 * (h.font_size - min_size) > 7 * size_range THEN "H1"
             ELSE IF 10 * (h.font_size - min_size) > 4 * size_range THEN "H2"
             ELSE "H3"

\* a variant of the final sort that orders by page alone
sort_by_page_levelPageOnly(hs) ==
    SortedBy(hs, [i \in 1..Len(hs) |-> hs[i].page])

\* the final sort of _classify_headings: by (page, rank of level), the pair
\* compared as 4 * page + rank, the rank being 1, 2 or 3
sort_by_page_level(hs) ==
    SortedBy(hs, [i \in 1..Len(hs) |-> 4 * hs[i].page + LevelRank(hs[i].level)])

\* _classify_headings(headings)
classify_headings(headings) ==
    IF headings = <<>> THEN <<>>
    ELSE
    LET sorted_headings ==
            SortedBy(headings, [i \in 1..Len(headings) |-> 0 - headings[i].font_size])
        font_sizes == {sorted_headings[i].font_size : i \in 1..Len(sorted_headings)}
        max_size == CHOOSE x \in font_sizes : \A y \in font_sizes : x >= y
        min_size == CHOOSE x \in font_sizes : \A y \in font_sizes : x <= y
        levelled == [i \in 1..Len(sorted_headings) |->
                        [sorted_headings[i] EXCEPT
                            !.level = classify_level(sorted_headings[i],
                                                     min_size, max_size)]]
    IN  sort_by_page_level(levelled)

\* the outline entries of a DocumentOutline
OutlineOf(classified_headings) ==
    [i \in 1..Len(classified_headings) |->
        [level |-> classified_headings[i].level,
         text |-> classified_headings[i].text,
         page |-> classified_headings[i].page]]

\* ----------------------------------------------------------- OCR pipeline
\* str.split('\n'): the pieces between the newlines (one piece when none)
RECURSIVE split_lines(_)
split_lines(s) ==
    LET nl == {i \in 1..Len(s) : s[i] = "\n"}
    IN  IF nl = {} THEN <<s>>
        ELSE LET first == CHOOSE i \in nl : \A j \in nl : i <= j
             IN  <<SubSeq(s, 1, first - 1)>>
                     \o split_lines(SubSeq(s, first + 1, Len(s)))

\* the entries one page's OCR text adds to all_text
ocr_page_entries(ocr_text, page_num) ==
    LET lines == split_lines(ocr_text)
        stripped == [i \in 1..Len(lines) |-> strip(lines[i])]
        Keep(line) == line # <<>> /\ Len(line) > OcrMinLineLen
        kept == SelectSeq(stripped, Keep)
    IN  [i \in 1..Len(kept) |-> [text |-> kept[i], page |-> page_num]]

\* the title the first page's OCR text gives: its first substantial line,
\* or `title` unchanged when it has none
ocr_title(ocr_text, title) ==
    LET lines == split_lines(ocr_text)
        stripped == [i \in 1..Len(lines) |-> strip(lines[i])]
        Subst(line) == /\ line # <<>>
                       /\ Len(line) > OcrTitleMinLen
                       /\ Len(line) < OcrTitleMaxLen
        good == SelectSeq(stripped, Subst)
    IN  IF good # <<>> THEN good[1] ELSE title

\* re.match(r'^\d+$', text)
MatchDigitsOnly(text) ==
    text # <<>> /\ \A i \in 1..Len(text) : text[i] \in DigitChars

\* re.match(r'^[A-Z][A-Z\s]+$', text)
MatchAllCaps(text) ==
    /\ Len(text) >= 2
    /\ IsUpperChar(text[1])
    /\ \A i \in 2..Len(text) : IsUpperChar(text[i]) \/ IsSpaceChar(text[i])

\* the end of a match of r'^\d+\.\s+' in text: the positions k such that
\* text[1..k] is digits, a dot and whitespace
NumberedPrefixEnds(text) ==
    {k \in 3..Len(text) :
        \E d \in 1..(k - 2) :
            /\ \A i \in 1..d : text[i] \in DigitChars
            /\ text[d + 1] = "."
            /\ \A i \in (d + 2)..k : IsSpaceChar(text[i])}

\* re.match(r'^\d+\.\s+[A-Z]', text)
MatchNumbered(text) ==
    \E k \in NumberedPrefixEnds(text) : k < Len(text) /\ IsUpperChar(text[k + 1])

\* r'[A-Z][a-z]+(\s+[A-Z][a-z]+)*$' matched from position p of text
RECURSIVE MatchTitleFrom(_, _)
MatchTitleFrom(text, p) ==
    /\ p <= Len(text)
    /\ IsUpperChar(text[p])
    /\ \E q \in (p + 1)..Len(text) :
          /\ \A i \in (p + 1)..q : IsLowerChar(text[i])
          /\ \/ q = Len(text)
             \/ \E r \in (q + 1)..Len(text) :
                   /\ \A i \in (q + 1)..r : IsSpaceChar(text[i])
                   /\ MatchTitleFrom(text, r + 1)

\* re.match(r'^[A-Z][a-z]+(\s+[A-Z][a-z]+)*$', text)
MatchTitleCase(text) == MatchTitleFrom(text, 1)

StopWords ==
    {<<"p","a","g","e">>, <<"c","o","n","t","i","n","u","e","d">>, <<".",".",".">>}

\* _looks_like_heading(text)
looks_like_heading(text) ==
    IF MatchDigitsOnly(text) THEN FALSE
    ELSE IF Len(text) < OcrHeadingMinLen \/ Len(text) > OcrHeadingMaxLen THEN FALSE
    ELSE IF Lower(text) \in StopWords THEN FALSE
    ELSE MatchAllCaps(text) \/ MatchNumbered(text) \/ MatchTitleCase(text)

\* str.isupper(): some cased character, and no lowercase one
isupper(text) ==
    /\ \E i \in 1..Len(text) : IsUpperChar(text[i])
    /\ \A i \in 1..Len(text) : ~IsLowerChar(text[i])

\* a variant of _classify_ocr_heading that takes the ALL CAPS pattern of
\* _looks_like_heading for text.isupper()
classify_ocr_headingPattern(text) ==
    IF MatchAllCaps(text) /\ Len(text) < OcrH1MaxLen THEN "H1"
    ELSE IF NumberedPrefixEnds(text) # {} THEN "H2"
    ELSE "H3"

\* _classify_ocr_heading(text)
classify_ocr_heading(text) ==
    IF isupper(text) /\ Len(text) < OcrH1MaxLen THEN "H1"
    ELSE IF NumberedPrefixEnds(text) # {} THEN "H2"
    ELSE "H3"

\* a variant of _detect_headings_from_ocr that sorts by page and level, as
\* the layout pipeline does
detect_headings_from_ocrSorted(text_lines) ==
    LET Heading(line_info) == looks_like_heading(line_info.text)
        kept == SelectSeq(text_lines, Heading)
        outline == [i \in 1..Len(kept) |->
                       [level |-> classify_ocr_heading(kept[i].text),
                        text |-> kept[i].text, page |-> kept[i].page]]
    IN  SortedBy(outline, [i \in 1..Len(outline) |->
                              4 * outline[i].page + LevelRank(outline[i].level)])

\* _detect_headings_from_ocr(text_lines)
detect_headings_from_ocr(text_lines) ==
    LET Heading(line_info) == looks_like_heading(line_info.text)
        kept == SelectSeq(text_lines, Heading)
    IN  [i \in 1..Len(kept) |->
            [level |-> classify_ocr_heading(kept[i].text),
             text |-> kept[i].text, page |-> kept[i].page]]

\* -------------------------------------------------------------- documents
\* A document is what the collaborators answer for one pdf_path:
\*   open_fails   fitz.open raises
\*   pages        the pages, each with
\*     width, height   page.rect
\*     text_fails      page.get_text("dict") raises
\*     spans           the spans of page.get_text("dict")
\*     raster_fails    page.get_pixmap / Image.frombytes raises
\*     ocr_fails       pytesseract.image_to_string raises
\*     ocr_text        the text pytesseract.image_to_string returns

Arial == <<"A","r","i","a","l">>
ArialBold == <<"A","r","i","a","l","-","B","o","l","d">>

Span(text, size, font, flags, xmid) ==
    [text |-> text, size |-> size, font |-> font, flags |-> flags,
     bbox |-> <<xmid - 40, 100, xmid + 40, 120>>]

Page(width, spans, text_fails, raster_fails, ocr_fails, ocr_text) ==
    [width |-> width, height |-> 800, spans |-> spans,
     text_fails |-> text_fails, raster_fails |-> raster_fails,
     ocr_fails |-> ocr_fails, ocr_text |-> ocr_text]

\* the sequences of at most n elements of the set S
SeqsUpTo(S, n) == UNION {[1..k -> S] : k \in 0..n}

\* the ways to cut a sequence of length len into p consecutive pieces
\* (possibly empty): the p - 1 cut points, nondecreasing
Cuts(len, p) ==
    {c \in [1..(p - 1) -> 0..len] : \A i \in 1..(p - 2) : c[i] <= c[i + 1]}

\* piece i of the p pieces of s cut at c
Piece(s, c, p, i) ==
    SubSeq(s, (IF i = 1 THEN 0 ELSE c[i - 1]) + 1, IF i = p THEN Len(s) ELSE c[i])

\* lines joined by newlines
RECURSIVE JoinLines(_)
JoinLines(lines) ==
    IF lines = <<>> THEN <<>>
    ELSE IF Len(lines) = 1 THEN lines[1]
    ELSE lines[1] \o <<"\n">> \o JoinLines(Tail(lines))

\* The document of p pages whose spans are those of s cut at c, page i being
\* w[i] wide: every collaborator succeeds and OCR sees nothing.
LayoutDoc(s, p, c, w) ==
    [open_fails |-> FALSE,
     pages |-> [i \in 1..p |->
                   Page(w[i], Piece(s, c, p, i), FALSE, FALSE, FALSE, <<>>)]]

Tabc == <<"a","b","c">>

\* spans that vary what the title criteria read (page width 600)
TitlePool ==
    {Span(Tabc, 20, ArialBold, 4, 300),
     Span(<<" ","a","b","d"," ">>, 20, Arial, 20, 300),
     Span(<<" ">>, 24, ArialBold, 4, 300),
     Span(<<"a","b","e">>, 15, ArialBold, 4, 300),
     Span(<<"a","b","f">>, 14, ArialBold, 4, 300),
     Span(<<"a","b","g">>, 24, Arial, 4, 300),
     Span(<<"a","b","h">>, 24, ArialBold, 4, 100)}

\* spans that vary what the heading filter reads (page width 600)
FilterPool ==
    {Span(<<"a","b">>, 12, ArialBold, 4, 300),
     Span(<<" ","a","b","c","\t">>, 12, ArialBold, 4, 300),
     Span(Rep("x", 100), 12, ArialBold, 4, 300),
     Span(Rep("x", 101), 12, ArialBold, 4, 300),
     Span(Tabc, 10, Arial, 4, 300),
     Span(Tabc, 9, ArialBold, 4, 300),
     Span(Tabc, 20, Arial, 4, 100),
     Span(Tabc, 10, Arial, 20, 100)}

\* bold spans of varied sizes, for the classification by size
SizePool ==
    {Span(Tabc, sz, ArialBold, 4, 100) : sz \in {10, 14, 15, 17, 20}}

\* spans of one size and varied formatting, and two larger
FormatPool ==
    {Span(Tabc, 12, ArialBold, 4, 300),
     Span(Tabc, 12, ArialBold, 4, 100),
     Span(Tabc, 12, Arial, 4, 300),
     Span(<<"a","b","e">>, 20, ArialBold, 4, 300),
     Span(<<"a","b","g">>, 20, Arial, 4, 300)}

\* spans at the centre of a page 600 wide and of a page 1000 wide
WidthPool ==
    {Span(Tabc, 12, Arial, 4, 300),
     Span(Tabc, 12, Arial, 4, 500),
     Span(<<"a","b","e">>, 20, ArialBold, 4, 500)}

LinePool ==
    {<<"I","N","T","R","O","D","U","C","T","I","O","N">>,
     <<"1","."," ","O","v","e","r","v","i","e","w">>,
     <<" ","S","u","m","m","a","r","y"," ">>,
     <<"1","2","3","4">>,
     <<>>}

\* OCR lines that vary what _looks_like_heading and _classify_ocr_heading
\* read: digits, lengths around 30 and 80, upper case with and without a
\* number in front, a stop word, Title Case words, lower case
NumberedUpper == <<"1","."," ","O","V","E","R","V","I","E","W">>
NumberedUpperLong == <<"1","."," ">> \o Rep("A", 27)
HeadingPool ==
    {<<"I","N","T","R","O","D","U","C","T","I","O","N">>,
     <<"1","."," ","O","v","e","r","v","i","e","w">>,
     <<"4","2">>,
     <<"1","2","3">>,
     Rep("A", 29),
     Rep("A", 30),
     NumberedUpper,
     NumberedUpperLong,
     <<"P","a","g","e">>,
     <<"A">> \o Rep("b", 79),
     <<"A">> \o Rep("b", 80),
     <<"h","e","l","l","o">>,
     <<"A","b"," ","C","d">>}

ReuseLinePool ==
    {<<"I","N","T","R","O","D","U","C","T","I","O","N">>,
     <<" ","S","u","m","m","a","r","y"," ">>}

\* The document of p pages whose OCR lines are those of s cut at c.  The
\* layout pipeline fails on it after extracting a title (get_text raises on
\* the last page); f = <<i, "raster">> or <<i, "ocr">> makes rasterization or
\* recognition fail on page i.
OcrDoc(s, p, c, f) ==
    [open_fails |-> FALSE,
     pages |-> [i \in 1..p |->
                   Page(600,
                        IF i = 1 THEN <<Span(Tabc, 20, ArialBold, 4, 300)>>
                        ELSE <<>>,
                        i = p,
                        f = <<i, "raster">>,
                        f = <<i, "ocr">>,
                        JoinLines(Piece(s, c, p, i)))]]

\* at most one page fails
OcrFailures(p) == {<<0, "none">>} \cup ((1..p) \X {"raster", "ocr"})

\* the file that cannot be opened, and the file with no pages
BrokenDocs ==
    {[open_fails |-> TRUE, pages |-> <<>>],
     [open_fails |-> FALSE, pages |-> <<>>]}

\* ------------------------------------------------------------------ state
VARIABLES
    pc,           \* where the running call is
    entry,        \* the method the caller invoked
    pdf,          \* <<d>>: the document at pdf_path; <<>> between calls
    self_doc,     \* self.doc: "None", "open" or "closed"
    page_width,   \* self.page_width
    page_height,  \* self.page_height
    title,        \* the local `title` of the running pipeline
    headings,     \* the local `headings` of _extract_layout_based
    classified_headings,  \* the local `classified_headings` of the same
    all_text,     \* the local `all_text` of _extract_ocr_based
    page_num,     \* the loop variable page_num
    caught,       \* <<e>>: the exception extract_outline caught; else <<>>
    result,       \* <<r>>: what the call returned or raised; else <<>>
    entered,      \* <<w>>: self.page_width as the running call found it
    ref           \* <<call>>: an earlier call an observer remembers; else <<>>

vars == <<pc, entry, pdf, self_doc, page_width, page_height, title, headings,
          classified_headings, all_text, page_num, caught, result, entered, ref>>

Returned(t, outline) == [kind |-> "return", title |-> t, outline |-> outline]
Raised(type, where) == [kind |-> "raise", type |-> type, where |-> where]

Doc == pdf[1]
NumPages == Len(Doc.pages)

Init ==
    /\ pc = "idle"
    /\ entry = "none"
    /\ pdf = <<>>
    /\ self_doc = "None"
    /\ page_width = 0
    /\ page_height = 0
    /\ title = <<>>
    /\ headings = <<>>
    /\ classified_headings = <<>>
    /\ all_text = <<>>
    /\ page_num = 0
    /\ caught = <<>>
    /\ result = <<>>
    /\ entered = <<>>
    /\ ref = <<>>

\* the caller has a pdf_path in hand: a document of one of the families: one
\* page of TitlePool or FilterPool spans; pages of SizePool or FormatPool
\* spans; pages of either width of WidthPool spans; pages of OCR lines; one
\* page of HeadingPool OCR lines; a broken file
Pick(d) ==
    /\ pdf' = <<d>>
    /\ pc' = "picked"
    /\ UNCHANGED <<entry, self_doc, page_width, page_height, title, headings,
                   classified_headings, all_text, page_num, caught, result,
                   entered, ref>>

PickDocument ==
    /\ pc = "idle"
    /\ \/ \E s \in SeqsUpTo(TitlePool, MaxSpans) \cup SeqsUpTo(FilterPool, MaxSpans) :
             Pick(LayoutDoc(s, 1, <<>>, <<600>>))
       \/ \E s \in SeqsUpTo(SizePool, MaxSpans) \cup SeqsUpTo(FormatPool, MaxSpans) :
             \E p \in 1..MaxPages : \E c \in Cuts(Len(s), p) :
                 Pick(LayoutDoc(s, p, c, [i \in 1..p |-> 600]))
       \/ \E s \in SeqsUpTo(WidthPool, MaxSpans) :
             \E p \in 1..MaxPages : \E c \in Cuts(Len(s), p) :
                 \E w \in [1..p -> {600, 1000}] : Pick(LayoutDoc(s, p, c, w))
       \/ \E s \in SeqsUpTo(LinePool, MaxLines) :
             \E p \in 1..MaxPages : \E c \in Cuts(Len(s), p) :
                 \E f \in OcrFailures(p) : Pick(OcrDoc(s, p, c, f))
       \/ \E s \in SeqsUpTo(HeadingPool, MaxLines) :
             Pick(OcrDoc(s, 1, <<>>, <<0, "none">>))
       \/ \E d \in BrokenDocs : Pick(d)

\* the same for a caller that reuses an extractor: one page of either width
\* with one WidthPool span; or pages of at most one OCR line, rasterization
\* failing on the last page or recognition on the first, or neither; or a
\* broken file
PickReuseDocument ==
    /\ pc = "idle"
    /\ \/ \E sp \in WidthPool : \E w \in {600, 1000} :
             Pick(LayoutDoc(<<sp>>, 1, <<>>, <<w>>))
       \/ \E s \in SeqsUpTo(ReuseLinePool, 1) :
             \E p \in 1..MaxPages : \E c \in Cuts(Len(s), p) :
                 \E f \in {<<0, "none">>, <<1, "ocr">>, <<p, "raster">>} :
                     Pick(OcrDoc(s, p, c, f))
       \/ \E d \in BrokenDocs : Pick(d)

\* process_pdf_file / the web form: a new PDFOutlineExtractor, then
\* extract_outline(pdf_path)
ProcessPdfFile ==
    /\ pc = "picked"
    /\ pc' = "layout_open"
    /\ entry' = "extract_outline"
    /\ self_doc' = "None"
    /\ page_width' = 0
    /\ page_height' = 0
    /\ entered' = <<0>>
    /\ UNCHANGED <<pdf, title, headings, classified_headings, all_text,
                   page_num, caught, result, ref>>

\* extract_outline(pdf_path) on the extractor as the last call left it
ExtractOutline ==
    /\ pc = "picked"
    /\ pc' = "layout_open"
    /\ entry' = "extract_outline"
    /\ entered' = <<page_width>>
    /\ UNCHANGED <<pdf, self_doc, page_width, page_height, title, headings,
                   classified_headings, all_text, page_num, caught, result, ref>>

\* _extract_ocr_based(pdf_path) called on its own, on the extractor as the
\* last call left it
ExtractOcrBased ==
    /\ pc = "picked"
    /\ pc' = "ocr_open"
    /\ entry' = "_extract_ocr_based"
    /\ entered' = <<page_width>>
    /\ UNCHANGED <<pdf, self_doc, page_width, page_height, title, headings,
                   classified_headings, all_text, page_num, caught, result, ref>>

\* an exception leaves _extract_layout_based: extract_outline catches it
LayoutRaise(type) ==
    /\ pc' = "except"
    /\ caught' = <<Raised(type, "_extract_layout_based")>>

\* a variant of the opening that takes the page dimensions only when the
\* extractor holds none
LayoutOpenKeepWidth ==
    /\ pc = "layout_open"
    /\ IF Doc.open_fails
       THEN /\ LayoutRaise("FileDataError")
            /\ UNCHANGED <<self_doc, page_width, page_height>>
       ELSE /\ self_doc' = "open"
            /\ IF NumPages = 0
               THEN /\ LayoutRaise("ValueError")
                    /\ UNCHANGED <<page_width, page_height>>
               ELSE /\ page_width' =
                           IF page_width = 0 THEN Doc.pages[1].width ELSE page_width
                    /\ page_height' =
                           IF page_height = 0 THEN Doc.pages[1].height ELSE page_height
                    /\ pc' = "title"
                    /\ UNCHANGED caught
    /\ UNCHANGED <<entry, pdf, classified_headings, title, headings, all_text, page_num, result, entered, ref>>

\* _extract_layout_based: open the document, refuse an empty one, take the
\* page dimensions from the first page
LayoutOpen ==
    /\ pc = "layout_open"
    /\ IF Doc.open_fails
       THEN /\ LayoutRaise("FileDataError")
            /\ UNCHANGED <<self_doc, page_width, page_height>>
       ELSE /\ self_doc' = "open"
            /\ IF NumPages = 0
               THEN /\ LayoutRaise("ValueError")
                    /\ UNCHANGED <<page_width, page_height>>
               ELSE /\ page_width' = Doc.pages[1].width
                    /\ page_height' = Doc.pages[1].height
                    /\ pc' = "title"
                    /\ UNCHANGED caught
    /\ UNCHANGED <<entry, pdf, classified_headings, title, headings, all_text, page_num, result, entered, ref>>

\* _extract_layout_based: title = self._extract_title(first_page)
LayoutTitle ==
    /\ pc = "title"
    /\ IF Doc.pages[1].text_fails
       THEN /\ LayoutRaise("RuntimeError")
            /\ UNCHANGED <<title, headings, page_num>>
       ELSE /\ title' = extract_title(Doc.pages[1], page_width)
            /\ headings' = <<>>
            /\ page_num' = 0
            /\ pc' = "headings"
            /\ UNCHANGED caught
    /\ UNCHANGED <<entry, pdf, classified_headings, self_doc, page_width, page_height, all_text,
                   result, entered, ref>>

\* _extract_layout_based: one turn of the loop over the pages
LayoutPage ==
    /\ pc = "headings"
    /\ page_num < NumPages
    /\ LET page == Doc.pages[page_num + 1]
       IN  IF page.text_fails
           THEN /\ LayoutRaise("RuntimeError")
                /\ UNCHANGED <<headings, page_num>>
           ELSE /\ headings' = headings \o
                       extract_headings_from_page(page, page_num + 1, page_width)
                /\ page_num' = page_num + 1
                /\ UNCHANGED <<pc, caught>>
    /\ UNCHANGED <<entry, pdf, classified_headings, self_doc, page_width, page_height, title,
                   all_text, result, entered, ref>>

\* _extract_layout_based: classified_headings = self._classify_headings(headings)
LayoutClassify ==
    /\ pc = "headings"
    /\ page_num = NumPages
    /\ classified_headings' = classify_headings(headings)
    /\ pc' = "classified"
    /\ UNCHANGED <<entry, pdf, self_doc, page_width, page_height, title,
                   headings, all_text, page_num, caught, result, entered, ref>>

\* _extract_layout_based: build the outline, close the document, return
LayoutReturn ==
    /\ pc = "classified"
    /\ result' = <<Returned(title, OutlineOf(classified_headings))>>
    /\ self_doc' = "closed"
    /\ pc' = "done"
    /\ UNCHANGED <<entry, pdf, page_width, page_height, title, headings,
                   classified_headings, all_text, page_num, caught, entered, ref>>

\* a variant of extract_outline's handler that returns what the layout
\* attempt had so far
ExceptHandlerPartial ==
    /\ pc = "except"
    /\ result' = <<Returned(IF title = <<>> THEN Untitled ELSE title,
                            OutlineOf(classify_headings(headings)))>>
    /\ pc' = "done"
    /\ UNCHANGED <<entry, pdf, self_doc, page_width, page_height, title,
                   headings, classified_headings, all_text, page_num, caught,
                   entered, ref>>

\* extract_outline: except Exception -> self._extract_ocr_based(pdf_path);
\* the locals of the layout attempt are gone
ExceptHandler ==
    /\ pc = "except"
    /\ pc' = "ocr_open"
    /\ title' = <<>>
    /\ headings' = <<>>
    /\ page_num' = 0
    /\ UNCHANGED <<entry, pdf, classified_headings, self_doc, page_width, page_height, all_text,
                   caught, result, entered, ref>>

\* an exception leaves _extract_ocr_based, and with it the call
OcrRaise(type) ==
    /\ result' = <<Raised(type, "_extract_ocr_based")>>
    /\ pc' = "done"

\* a variant of the opening without the check for an empty document
OcrOpenNoEmptyCheck ==
    /\ pc = "ocr_open"
    /\ IF Doc.open_fails
       THEN /\ OcrRaise("FileDataError")
            /\ UNCHANGED <<self_doc, all_text, title, page_num>>
       ELSE /\ self_doc' = "open"
            /\ all_text' = <<>>
            /\ title' = Untitled
            /\ page_num' = 0
            /\ pc' = "ocr_page"
            /\ UNCHANGED result
    /\ UNCHANGED <<entry, pdf, classified_headings, page_width, page_height, headings, caught, entered, ref>>

\* _extract_ocr_based: open the document, refuse an empty one
OcrOpen ==
    /\ pc = "ocr_open"
    /\ IF Doc.open_fails
       THEN /\ OcrRaise("FileDataError")
            /\ UNCHANGED <<self_doc, all_text, title, page_num>>
       ELSE /\ self_doc' = "open"
            /\ IF NumPages = 0
               THEN /\ OcrRaise("ValueError")
                    /\ UNCHANGED <<all_text, title, page_num>>
               ELSE /\ all_text' = <<>>
                    /\ title' = Untitled
                    /\ page_num' = 0
                    /\ pc' = "ocr_page"
                    /\ UNCHANGED result
    /\ UNCHANGED <<entry, pdf, classified_headings, page_width, page_height, headings, caught, entered, ref>>

\* _extract_ocr_based: one turn of the loop over the pages.  The page is
\* rasterized outside the try block; only the recognition is inside it.
OcrPage ==
    /\ pc = "ocr_page"
    /\ page_num < NumPages
    /\ LET page == Doc.pages[page_num + 1]
       IN  IF page.raster_fails
           THEN /\ OcrRaise("RuntimeError")
                /\ UNCHANGED <<all_text, title, page_num>>
           ELSE IF page.ocr_fails
           THEN /\ page_num' = page_num + 1
                /\ UNCHANGED <<all_text, title, pc, result>>
           ELSE /\ all_text' = all_text \o
                       ocr_page_entries(page.ocr_text, page_num + 1)
                /\ title' = IF page_num = 0
                            THEN ocr_title(page.ocr_text, title)
                            ELSE title
                /\ page_num' = page_num + 1
                /\ UNCHANGED <<pc, result>>
    /\ UNCHANGED <<entry, pdf, classified_headings, self_doc, page_width, page_height, headings,
                   caught, entered, ref>>

\* _extract_ocr_based: detect the headings, close, return
OcrReturn ==
    /\ pc = "ocr_page"
    /\ page_num = NumPages
    /\ result' = <<Returned(title, detect_headings_from_ocr(all_text))>>
    /\ self_doc' = "closed"
    /\ pc' = "done"
    /\ UNCHANGED <<entry, pdf, classified_headings, page_width, page_height, title, headings,
                   all_text, page_num, caught, entered, ref>>

\* the call is over: its frame is gone, the extractor's fields stay
EndCall ==
    /\ pc' = "idle"
    /\ entry' = "none"
    /\ pdf' = <<>>
    /\ title' = <<>>
    /\ headings' = <<>>
    /\ classified_headings' = <<>>
    /\ all_text' = <<>>
    /\ page_num' = 0
    /\ caught' = <<>>
    /\ result' = <<>>
    /\ entered' = <<>>
    /\ UNCHANGED <<self_doc, page_width, page_height>>

\* the caller takes the result
Return ==
    /\ pc = "done"
    /\ EndCall
    /\ UNCHANGED ref

\* the caller takes the result, and an observer remembers the call
ReturnRemembered ==
    /\ pc = "done"
    /\ EndCall
    /\ ref' = <<[entry |-> entry, pdf |-> Doc, entered |-> entered[1],
                 caught |-> caught, result |-> result[1]]>>

Steps ==
    \/ LayoutOpen
    \/ LayoutTitle
    \/ LayoutPage
    \/ LayoutClassify
    \/ LayoutReturn
    \/ ExceptHandler
    \/ OcrOpen
    \/ OcrPage
    \/ OcrReturn

\* the batch driver and the web form: one extractor per document
Next ==
    \/ PickDocument
    \/ ProcessPdfFile
    \/ Steps
    \/ Return

Spec == Init /\ [][Next]_vars

\* a caller that keeps an extractor for several documents, calling
\* extract_outline or _extract_ocr_based on it, or starts with a new one
NextReuse ==
    \/ PickReuseDocument
    \/ ProcessPdfFile
    \/ ExtractOutline
    \/ ExtractOcrBased
    \/ Steps
    \/ Return
    \/ ReturnRemembered

SpecReuse == Init /\ [][NextReuse]_vars

\* ------------------------------------------------------------------ claims
\* the running call is over and the result is still in hand
Done == pc = "done"
\* the remembered call was made on the document of the running call
SameDocumentRemembered == ref # <<>> /\ ref[1].pdf = Doc
\* the layout pipeline raised in the running call
LayoutRaised == entry = "extract_outline" /\ caught # <<>>

\* C1: when the layout pipeline raises on a document, extract_outline ends
\* exactly as _extract_ocr_based called alone on that document ends: the same
\* title and outline returned (or the same exception raised), whichever of
\* the two calls came first.
C1_FallbackIsOcrAlone ==
    (Done /\ SameDocumentRemembered) =>
        /\ (LayoutRaised /\ ref[1].entry = "_extract_ocr_based")
               => result[1] = ref[1].result
        /\ (entry = "_extract_ocr_based" /\ ref[1].entry = "extract_outline"
                /\ ref[1].caught # <<>>)
               => result[1] = ref[1].result

\* C1 witness: the layout pipeline had extracted a title from page 1 and
\* then raised on page 2; extract_outline returned the non-empty outline and
\* the title that _extract_ocr_based alone had returned for the document.
C1_Witness ==
    /\ Done /\ SameDocumentRemembered /\ LayoutRaised
    /\ ref[1].entry = "_extract_ocr_based"
    /\ NumPages = 2
    /\ extract_title(Doc.pages[1], Doc.pages[1].width) = Tabc
    /\ result[1].kind = "return"
    /\ result[1].outline # <<>>
    /\ result[1].title # Tabc

\* C2: on a document with zero pages the layout pipeline raises the
\* empty-document error, extract_outline falls back, the OCR pipeline raises
\* the empty-document error too, and that second exception is what the
\* caller gets: no outline is returned.
C2_EmptyDocumentRaisesTwice ==
    (Done /\ entry = "extract_outline" /\ ~Doc.open_fails /\ NumPages = 0) =>
        /\ caught = <<Raised("ValueError", "_extract_layout_based")>>
        /\ result = <<Raised("ValueError", "_extract_ocr_based")>>

\* C2 witness: extract_outline is over on an openable document of zero pages
C2_Witness ==
    /\ Done /\ entry = "extract_outline" /\ ~Doc.open_fails /\ NumPages = 0
    /\ result[1].kind = "raise"

\* C3: two calls of the same method on the same document, made on one
\* extractor with any calls in between, end the same way (same title and
\* outline, or same exception), whatever page_width the earlier calls left.
C3_SameDocumentSameResult ==
    (Done /\ SameDocumentRemembered /\ ref[1].entry = entry) =>
        /\ result[1] = ref[1].result
        /\ caught = ref[1].caught

\* C3 witness: extract_outline returned a heading for a page 1000 wide, once
\* on an extractor that held page_width 600 from another document and once
\* on a fresh one.
C3_Witness ==
    /\ Done /\ SameDocumentRemembered
    /\ entry = "extract_outline" /\ ref[1].entry = "extract_outline"
    /\ caught = <<>>
    /\ Doc.pages[1].width = 1000
    /\ entered = <<600>>
    /\ ref[1].entered = 0
    /\ result[1].outline # <<>>
    /\ \E i \in 1..Len(Doc.pages[1].spans) :
          /\ ~is_bold(Doc.pages[1].spans[i])
          /\ is_text_centered(Doc.pages[1].spans[i].bbox, 1000)
          /\ ~is_text_centered(Doc.pages[1].spans[i].bbox, 600)

\* the layout pipeline has extracted the title and has not raised since
LayoutHasTitle ==
    \/ pc \in {"headings", "classified"}
    \/ Done /\ entry = "extract_outline" /\ caught = <<>>

\* the layout pipeline has returned
LayoutReturned == Done /\ entry = "extract_outline" /\ caught = <<>>

\* the OCR pipeline has run to its end, by itself or as the fallback
OcrEnded == Done /\ (entry = "_extract_ocr_based" \/ caught # <<>>)

FirstPage == Doc.pages[1]

\* the title criteria as the claim words them: size, bold, centred
ClaimedTitleCandidate(sp) ==
    /\ sp.size > 14
    /\ is_bold(sp)
    /\ is_text_centered(sp.bbox, FirstPage.width)

\* the same, for spans that have text
TextTitleCandidate(sp) ==
    strip(sp.text) # <<>> /\ ClaimedTitleCandidate(sp)

\* the places of page 1's spans that hold a candidate, either way
ClaimedTitleCandidates ==
    {i \in 1..Len(FirstPage.spans) : ClaimedTitleCandidate(FirstPage.spans[i])}
TextTitleCandidates ==
    {i \in 1..Len(FirstPage.spans) : TextTitleCandidate(FirstPage.spans[i])}

\* the title the claim gives for the candidates at the places `cands` of
\* the spans: the text of the first of the largest, or "Untitled Document"
TitleAmong(spans, cands) ==
    IF cands = {} THEN Untitled
    ELSE LET best == CHOOSE i \in cands :
                         \A j \in cands :
                             \/ spans[j].size < spans[i].size
                             \/ spans[j].size = spans[i].size /\ i <= j
         IN  strip(spans[best].text)

\* C4 as stated: every span of page 1 that is larger than 14, bold and
\* centred is a title candidate; the title is the text of the first of the
\* largest candidates, "Untitled Document" when there is none, and never empty.
C4_TitleAsStated ==
    LayoutHasTitle =>
        /\ title = TitleAmong(FirstPage.spans, ClaimedTitleCandidates)
        /\ title # <<>>

\* C4 as amended: the title candidates are the spans of page 1 with
\* non-empty trimmed text that are larger than 14, bold and centred; the
\* title is the trimmed text of the first of the largest candidates,
\* "Untitled Document" when there is none, never empty, and it is the title
\* the layout pipeline returns whatever the later pages hold.
C4_TitleOfPageOne ==
    /\ LayoutHasTitle =>
          /\ title = TitleAmong(FirstPage.spans, TextTitleCandidates)
          /\ title # <<>>
    /\ LayoutReturned => result[1].title = title

\* C4 witness: page 1 holds a blank span that is the largest, bold and
\* centred, and two candidates of one size with different texts; the title
\* is the text of the first of the two.
C4_Witness ==
    /\ pc = "headings"
    /\ \E i, j, k \in 1..Len(FirstPage.spans) :
          LET sp == FirstPage.spans
          IN  /\ i < j
              /\ TextTitleCandidate(sp[i]) /\ TextTitleCandidate(sp[j])
              /\ sp[i].size = sp[j].size
              /\ strip(sp[i].text) # strip(sp[j].text)
              /\ strip(sp[k].text) = <<>> /\ ClaimedTitleCandidate(sp[k])
              /\ sp[k].size > sp[i].size
              /\ title = strip(sp[i].text)

\* the number of places of seq that hold x
Count(seq, x) == Cardinality({i \in 1..Len(seq) : seq[i] = x})

\* a sequence of outline entries or headings in page order and, within a
\* page, H1 before H2 before H3
PageLevelOrdered(o) ==
    \A i, j \in 1..Len(o) :
        i < j => \/ o[i].page < o[j].page
                 \/ o[i].page = o[j].page
                        /\ LevelRank(o[i].level) <= LevelRank(o[j].level)

Unlevelled(hs) == [i \in 1..Len(hs) |-> [hs[i] EXCEPT !.level = ""]]

\* C5: the classified headings, and the outline the layout pipeline returns,
\* are ordered by page and within a page by level, H1 first; they are the
\* candidates that passed the filter, each once, each with a level of H1, H2
\* or H3.
C5_LayoutOutlineOrdered ==
    /\ (pc = "classified" \/ LayoutReturned) =>
          /\ PageLevelOrdered(classified_headings)
          /\ Len(classified_headings) = Len(headings)
          /\ \A i \in 1..Len(headings) :
                Count(Unlevelled(classified_headings), headings[i])
                    = Count(headings, headings[i])
          /\ \A i \in 1..Len(classified_headings) :
                classified_headings[i].level \in {"H1", "H2", "H3"}
    /\ LayoutReturned =>
          /\ PageLevelOrdered(result[1].outline)
          /\ Len(result[1].outline) = Len(classified_headings)
          /\ \A i \in 1..Len(classified_headings) :
                result[1].outline[i] =
                    [level |-> classified_headings[i].level,
                     text |-> classified_headings[i].text,
                     page |-> classified_headings[i].page]

\* C5 witness: two candidates of one size were met on one page, the plain
\* one before the bold and centred one, and a candidate on a later page; the
\* outline returned lists the H1 of the page before its H3.
C5_Witness ==
    /\ LayoutReturned
    /\ \E i, j, k \in 1..Len(headings) :
          /\ i < j
          /\ headings[i].page = headings[j].page
          /\ headings[k].page > headings[i].page
          /\ headings[i].font_size = headings[j].font_size
          /\ ~headings[i].is_bold
          /\ headings[j].is_bold /\ headings[j].is_centered
    /\ Len(result[1].outline) = 3
    /\ result[1].outline[1].level = "H1"
    /\ result[1].outline[2].level = "H3"
    /\ result[1].outline[1].page = result[1].outline[2].page

\* the stripped lines of more than two characters of one page's OCR text
RECURSIVE LongLines(_)
LongLines(lines) ==
    IF lines = <<>> THEN <<>>
    ELSE LET line == strip(Head(lines))
         IN  (IF Len(line) > 2 THEN <<line>> ELSE <<>>) \o LongLines(Tail(lines))

\* the lines the OCR pipeline is to collect from pages 1..n: those of the
\* pages not in `skipped`, in page order and line order
RECURSIVE LinesOfPages(_, _, _)
LinesOfPages(pages, n, skipped) ==
    IF n = 0 THEN <<>>
    ELSE LinesOfPages(pages, n - 1, skipped) \o
         (IF n \in skipped THEN <<>>
          ELSE LET ls == LongLines(split_lines(pages[n].ocr_text))
               IN  [i \in 1..Len(ls) |-> [text |-> ls[i], page |-> n]])

\* the pages on which recognition fails; on which it or rasterization does
RecognitionFails == {n \in 1..NumPages : Doc.pages[n].ocr_fails}
RasterOrRecognitionFails ==
    {n \in 1..NumPages : Doc.pages[n].raster_fails \/ Doc.pages[n].ocr_fails}

\* C6: the outline the OCR pipeline returns is the collected lines that
\* pass _looks_like_heading, each once, in the order collected: by page and,
\* within a page, in the line order of the OCR text, levels not considered.
C6_OcrOutlineInEncounterOrder ==
    (OcrEnded /\ result[1].kind = "return") =>
        LET Heading(e) == looks_like_heading(e.text)
            expected == SelectSeq(
                LinesOfPages(Doc.pages, NumPages, RecognitionFails), Heading)
            outline == result[1].outline
        IN  /\ Len(outline) = Len(expected)
            /\ \A i \in 1..Len(outline) :
                  /\ outline[i].text = expected[i].text
                  /\ outline[i].page = expected[i].page
                  /\ outline[i].level \in {"H1", "H2", "H3"}

\* C6 witness: the OCR pipeline returned an outline whose first entry is an
\* H3 and whose second entry, of the same page, is an H1.
C6_Witness ==
    /\ OcrEnded /\ result[1].kind = "return"
    /\ Len(result[1].outline) = 2
    /\ result[1].outline[1].level = "H3"
    /\ result[1].outline[2].level = "H1"
    /\ result[1].outline[1].page = result[1].outline[2].page

\* C7 as stated: when the OCR pipeline ends on a document that opens and has
\* pages, it has returned an outline, built from the lines of the pages on
\* which neither rasterization nor recognition failed.
C7_PageFailureSkipped ==
    (OcrEnded /\ ~Doc.open_fails /\ NumPages > 0) =>
        /\ result[1].kind = "return"
        /\ all_text = LinesOfPages(Doc.pages, NumPages, RasterOrRecognitionFails)

\* what the claim keeps of a page's spans, the centred test made with `width`
ClaimKeeps(sp, width) ==
    LET n == Len(strip(sp.text))
    IN  /\ 3 <= n /\ n <= 100
        /\ sp.size >= 10
        /\ (is_bold(sp) \/ is_text_centered(sp.bbox, width))

\* the candidates page p gave are the spans of page p that the claim keeps,
\* in order, the centred test made with `width`
PageCandidatesAre(p, width) ==
    LET OnPage(h) == h.page = p
        Kept(sp) == ClaimKeeps(sp, width)
        got == SelectSeq(headings, OnPage)
        want == SelectSeq(Doc.pages[p].spans, Kept)
    IN  /\ Len(got) = Len(want)
        /\ \A i \in 1..Len(got) :
              /\ got[i].text = strip(want[i].text)
              /\ got[i].font_size = want[i].size
              /\ got[i].is_bold = is_bold(want[i])
              /\ got[i].is_centered = is_text_centered(want[i].bbox, width)

\* C8 as stated: the candidates of page p are selected with the centred
\* test made against the width of page p.
C8_CenteredUsesOwnPageWidth ==
    pc = "headings" =>
        \A p \in 1..page_num : PageCandidatesAre(p, Doc.pages[p].width)

\* C9: a span is kept as a heading candidate iff its trimmed text has 3 to
\* 100 characters, its size is at least 10 and it is bold or centred
\* (centred as _is_text_centered answers for self.page_width).
C9_CandidateFilter ==
    pc = "headings" =>
        \A p \in 1..page_num : PageCandidatesAre(p, page_width)

\* C9 witness: of the spans of a page, the one of 100 characters and the one
\* of size 10, centred and not bold, were kept and the one of 101 characters
\* was not.
C9_Witness ==
    /\ pc = "headings" /\ page_num = 1
    /\ Len(headings) = 2
    /\ \E i, j, k \in 1..Len(FirstPage.spans) :
          LET sp == FirstPage.spans
          IN  /\ Len(strip(sp[i].text)) = 100
              /\ Len(strip(sp[j].text)) = 101 /\ sp[j].size >= 10 /\ is_bold(sp[j])
              /\ sp[k].size = 10 /\ ~is_bold(sp[k])
              /\ is_text_centered(sp[k].bbox, page_width)
              /\ \E a, b \in 1..2 :
                    /\ headings[a].text = strip(sp[i].text)
                    /\ headings[b].font_size = 10 /\ ~headings[b].is_bold

\* the level the claim gives a candidate of the sizes `sizes`
ClaimedLevel(h, sizes) ==
    LET max_size == CHOOSE x \in sizes : \A y \in sizes : y <= x
        min_size == CHOOSE x \in sizes : \A y \in sizes : x <= y
    IN  IF max_size = min_size
        THEN IF h.is_bold /\ h.is_centered THEN "H1"
             ELSE IF h.is_bold THEN "H2" ELSE "H3"
        ELSE \* n = (size - min_size) / (max_size - min_size)
             IF 10 * (h.font_size - min_size) > 7 * (max_size - min_size) THEN "H1"
             ELSE IF 10 * (h.font_size - min_size) > 4 * (max_size - min_size)
                  THEN "H2"
             ELSE "H3"

\* C10: each candidate gets the level the rule gives for its size between
\* the smallest and the largest size of all the candidates of all the pages,
\* the comparisons with 0.7 and 0.4 strict; when the sizes vary the largest
\* candidates are H1 and the smallest H3.
C10_LevelBySize ==
    (pc = "classified" /\ headings # <<>>) =>
        LET sizes == {headings[i].font_size : i \in 1..Len(headings)}
        IN  \A i \in 1..Len(classified_headings) :
                LET h == classified_headings[i]
                IN  /\ h.level = ClaimedLevel(h, sizes)
                    /\ Cardinality(sizes) > 1 =>
                          /\ (\A y \in sizes : y <= h.font_size) => h.level = "H1"
                          /\ (\A y \in sizes : h.font_size <= y) => h.level = "H3"

\* C10 witness: candidates of sizes 10, 17 and 20 on two pages: the one of
\* size 17, at n = 0.7 exactly, is H2, the largest H1 and the smallest H3.
C10_Witness ==
    /\ pc = "classified"
    /\ {<<classified_headings[i].font_size, classified_headings[i].level>> :
            i \in 1..Len(classified_headings)}
           = {<<10, "H3">>, <<17, "H2">>, <<20, "H1">>}
    /\ \E i, j \in 1..Len(classified_headings) :
          classified_headings[i].page # classified_headings[j].page

\* C11: in the headings one run of _classify_headings returns, a candidate
\* of a larger font size than another never has a lower level than it (H1
\* the highest), whatever the pages and the formatting of the two.
C11_LevelMonotonicInSize ==
    pc = "classified" =>
        \A i, j \in 1..Len(classified_headings) :
            LET A == classified_headings[i]
                B == classified_headings[j]
            IN  A.font_size > B.font_size
                    => LevelRank(A.level) <= LevelRank(B.level)

\* C11 witness: a centred candidate that is not bold, of size 20, is H1 on
\* one page and a bold centred candidate of size 12 is H3 on another.
C11_Witness ==
    /\ pc = "classified"
    /\ \E i, j \in 1..Len(classified_headings) :
          LET A == classified_headings[i]
              B == classified_headings[j]
          IN  /\ A.font_size = 20 /\ ~A.is_bold /\ A.is_centered
              /\ B.font_size = 12 /\ B.is_bold /\ B.is_centered
              /\ A.page # B.page
              /\ A.level = "H1" /\ B.level = "H3"

\* the lines the claim has _looks_like_heading accept
ClaimAccepts(e) ==
    /\ ~MatchDigitsOnly(e.text)
    /\ Len(e.text) >= 3 /\ Len(e.text) <= 80
    /\ Lower(e.text) \notin StopWords
    /\ MatchAllCaps(e.text) \/ MatchNumbered(e.text) \/ MatchTitleCase(e.text)

\* the level the claim gives an accepted line, `upper` telling whether the
\* line is all-uppercase
ClaimedOcrLevel(upper, text) ==
    IF upper /\ Len(text) < 30 THEN "H1"
    ELSE IF MatchNumbered(text) THEN "H2"
    ELSE "H3"

\* the lines the OCR pipeline collected from the document
CollectedLines == LinesOfPages(Doc.pages, NumPages, RecognitionFails)

\* the collected lines that are all-uppercase: by str.isupper (no lowercase
\* letter and some uppercase one), or by the ALL CAPS pattern (uppercase
\* letters and whitespace only)
UpperByIsupper ==
    {CollectedLines[i].text : i \in {j \in 1..Len(CollectedLines) :
                                         isupper(CollectedLines[j].text)}}
UpperByPattern ==
    {CollectedLines[i].text : i \in {j \in 1..Len(CollectedLines) :
                                         MatchAllCaps(CollectedLines[j].text)}}

\* the outline holds the accepted lines with the claimed levels, the lines
\* of `uppers` being the all-uppercase ones
OcrOutlineLevelled(uppers) ==
    LET expected == SelectSeq(CollectedLines, ClaimAccepts)
        outline == result[1].outline
    IN  /\ Len(outline) = Len(expected)
        /\ \A i \in 1..Len(outline) :
              /\ outline[i].text = expected[i].text
              /\ outline[i].level =
                     ClaimedOcrLevel(outline[i].text \in uppers, outline[i].text)

\* every all-uppercase line of 30 or more characters of the outline is H3
LongUpperIsH3(uppers) ==
    \A i \in 1..Len(result[1].outline) :
        LET e == result[1].outline[i]
        IN  (e.text \in uppers /\ Len(e.text) >= 30) => e.level = "H3"

\* C12 as stated: the OCR outline holds the accepted lines, H1 if
\* all-uppercase and shorter than 30, else H2 if numbered, else H3, and every
\* all-uppercase line of 30 or more characters is H3: with all-uppercase
\* read as str.isupper, or read as the ALL CAPS pattern.
C12_OcrLevelAsStated ==
    (OcrEnded /\ result[1].kind = "return") =>
        \/ OcrOutlineLevelled(UpperByIsupper) /\ LongUpperIsH3(UpperByIsupper)
        \/ OcrOutlineLevelled(UpperByPattern) /\ LongUpperIsH3(UpperByPattern)

\* C12 as amended: the OCR outline holds the accepted lines, H1 if the line
\* has no lowercase letter and some uppercase one (digits and punctuation
\* allowed) and is shorter than 30, else H2 if numbered, else H3; such a
\* line of 30 or more characters is H2 if numbered and H3 otherwise, H3
\* when it is uppercase letters and whitespace only.
C12_OcrLevelByCase ==
    (OcrEnded /\ result[1].kind = "return") =>
        /\ OcrOutlineLevelled(UpperByIsupper)
        /\ LongUpperIsH3(UpperByPattern)
        /\ \A i \in 1..Len(result[1].outline) :
              LET e == result[1].outline[i]
              IN  (e.text \in UpperByIsupper /\ Len(e.text) >= 30) =>
                      e.level = IF MatchNumbered(e.text) THEN "H2" ELSE "H3"

\* C12 witness: the OCR pipeline returned "1. OVERVIEW" as H1 and a
\* numbered uppercase line of 30 characters as H2.
C12_Witness ==
    /\ OcrEnded /\ result[1].kind = "return"
    /\ Len(result[1].outline) = 2
    /\ result[1].outline[1].text = NumberedUpper
    /\ result[1].outline[1].level = "H1"
    /\ result[1].outline[2].text = NumberedUpperLong
    /\ Len(NumberedUpperLong) = 30
    /\ result[1].outline[2].level = "H2"

====
